---- MODULE Spec2Model ----
(***************************************************************************)
(* Model of the evaluation notebook of the RL recommender                  *)
(* (src/testing.ipynb): the data-preparation cell (item remapping and the  *)
(* test interaction tables), AmazonEnv (reset / step), DQNAgent            *)
(* (select_action on top of DQN.forward), the ranking metrics              *)
(* precision_at_k / recall_at_k and evaluate_agent.                        *)
(*                                                                         *)
(* Numbers.  Python rewards are modelled in tenths (a rating r is 10*r,    *)
(* the literal -0.1 is -1).  Elements of an observation are float32        *)
(* values; they are modelled exactly, as integer multiples of 2^-27        *)
(* (see Float32OfInt, Float32OfTenths).  A metric value is a fraction <<num, den>>.            *)
(***************************************************************************)
EXTENDS Integers, Sequences, FiniteSets, TLC

VARIABLES
    pc,                 \* position of the notebook run
    df_train,           \* item_idx column of the train split (a sequence)
    df_test,            \* rows of the test split (a sequence of records)
    item_mapping,       \* old item id -> dense item id
    num_items,          \* global num_items
    df,                 \* AmazonEnv.df: the set of its user_idx values
    user_interactions,  \* AmazonEnv.user_interactions: user -> set of items
    user_ratings,       \* AmazonEnv.user_ratings: <<user, item>> -> rating
    num_users,          \* AmazonEnv.num_users
    N,                  \* AmazonEnv.N
    M,                  \* AmazonEnv.M
    current_user,       \* AmazonEnv.current_user
    history,            \* AmazonEnv.history: sequence of <<action, reward>>
    ret,                \* outcome of the last call of reset / step
    sel,                \* outcome of the last call of select_action
    num_test_episodes,  \* evaluate_agent: parameter
    state,              \* evaluate_agent: local
    done,               \* evaluate_agent: local
    recommended_items,  \* evaluate_agent: local
    total_reward,       \* evaluate_agent: local
    episode,            \* evaluate_agent: loop counter
    precision_scores,   \* evaluate_agent: k -> sequence of fractions
    recall_scores,      \* evaluate_agent: k -> sequence of fractions
    total_rewards,      \* evaluate_agent: sequence of episode rewards
    recommended,        \* metric call: argument
    relevant,           \* metric call: argument
    k,                  \* metric call: argument
    precision,          \* metric call: result of precision_at_k
    recall              \* metric call: result of recall_at_k

dataVars == <<df_train, df_test, item_mapping, num_items>>
envVars == <<df, user_interactions, user_ratings, num_users, N, M, current_user,
             history>>
evalVars == <<num_test_episodes, state, done, recommended_items, total_reward,
              episode, precision_scores, recall_scores, total_rewards>>
metricVars == <<recommended, relevant, k, precision, recall>>
vars == <<pc, dataVars, envVars, ret, sel, evalVars, metricVars>>

----------------------------------------------------------------------------
(* Bounds of the model.                                                    *)

MaxOrigItem == 2        \* original (pre-remap) item ids are 1..MaxOrigItem
MaxTrainRows == 2       \* rows of the train split
MaxTestRows == 1        \* rows of the test split
MaxUsers == 2           \* user ids are 0..MaxUsers-1
MaxN == 2               \* history window N is 0..MaxN
MaxM == 2               \* episode length M is 1..MaxM
MaxEpisodes == 1        \* num_test_episodes is 1..MaxEpisodes
MaxScore == 1           \* q-values are 0..MaxScore
MaxMetricItem == 3      \* metric calls: item ids are 1..MaxMetricItem
MaxRecLen == 3          \* metric calls: length of the recommended list
MaxK == 4               \* metric calls: k is -MaxK..MaxK

(* Program constants.                                                      *)

PenaltyTenths == -1     \* reward = -0.1, in tenths
MaxRating == 5          \* upper bound of a rating (observation_space high)
ExploreNum == 75        \* random.random() < 0.75, in hundredths

\* Python's None (AmazonEnv.current_user before reset): no user id.
None == 0 - 1

----------------------------------------------------------------------------
(* Python and numpy helpers.                                               *)

Range(s) == {s[i] : i \in 1..Len(s)}

Min(a, b) == IF a < b THEN a ELSE b

Max(a, b) == IF a > b THEN a ELSE b

SeqsUpTo(S, n) == UNION {[1..m -> S] : m \in 0..n}

\* A faulty variant of PySlicePrefix: the slice stops one element early.
PySlicePrefixShort(s, n) ==
    IF n >= 0 THEN SubSeq(s, 1, Min(n, Len(s)) - 1)
    ELSE SubSeq(s, 1, Max(Len(s) + n, 0))

\* A faulty variant of PySlicePrefix: the list is not cut at all.
PySlicePrefixWhole(s, n) == s

\* s[:n] of a Python list: the first n elements; for n < 0 all but the last -n.
PySlicePrefix(s, n) ==
    IF n >= 0 THEN SubSeq(s, 1, Min(n, Len(s)))
    ELSE SubSeq(s, 1, Max(Len(s) + n, 0))

\* s[-n:] of a Python list, n >= 0: the last n elements; -0 is 0, so s[-0:]
\* is s[0:], the whole list.
PySliceSuffix(s, n) ==
    IF n = 0 \/ n >= Len(s) THEN s
    ELSE SubSeq(s, Len(s) - n + 1, Len(s))

\* [v] * n of Python (the empty list for n <= 0).
Repeat(v, n) == [i \in 1..Max(n, 0) |-> v]

\* One float32 value 1.0 in the unit of the model, 2^-27.
F32One == 2^27

\* float32(-0.1) = -13421773 * 2^-27 (24-bit significand 0xCCCCCD, exponent
\* -4): not the double -0.1.
F32Penalty == 0 - 13421773

\* nan, the float32 numpy stores for None (no multiple of 2^27).
F32NaN == 0 - (2^30 + 1)

\* np.array([...], dtype=np.float32) on a Python int (an id, a padding 0).
\* Integers below 2^24 in magnitude are exact in float32.
Float32OfInt(n) == n * F32One

\* np.array([...], dtype=np.float32) on current_user: numpy stores nan for None.
Float32OfUser(u) == IF u = None THEN F32NaN ELSE Float32OfInt(u)

\* np.array([...], dtype=np.float32) on a reward or a padding 0.0, in tenths.
Float32OfTenths(t) ==
    IF t = PenaltyTenths THEN F32Penalty ELSE (t \div 10) * F32One

\* int(v) of a float32 element (truncation; the model's values are >= 0).
IntOfFloat32(v) == v \div F32One

\* The tenths of a Python int.
Tenths(n) == 10 * n

----------------------------------------------------------------------------
(* The data-preparation cell.                                              *)

UserIds == 0..(MaxUsers - 1)

OrigItems == 1..MaxOrigItem

Ratings == {1, MaxRating}

TestRow == [user_idx : UserIds, item_idx : OrigItems, overall : Ratings]

\* Series.unique(): the distinct values in order of first appearance.
RECURSIVE Unique(_)
Unique(s) ==
    IF s = <<>> THEN <<>>
    ELSE LET p == Unique(SubSeq(s, 1, Len(s) - 1))
             x == s[Len(s)]
         IN  IF x \in Range(p) THEN p ELSE Append(p, x)

\* all_items = pd.concat([df_train['item_idx'], df_test['item_idx']]).unique()
AllItems(train, test) ==
    Unique(train \o [i \in 1..Len(test) |-> test[i].item_idx])

\* item_mapping = {old_idx: new_idx for new_idx, old_idx in enumerate(all_items)}
ItemMapping(all) ==
    [old \in Range(all) |-> (CHOOSE i \in 1..Len(all) : all[i] = old) - 1]

\* df['item_idx'] = df['item_idx'].map(item_mapping), on the train column.
MapTrain(train, mapping) == [i \in 1..Len(train) |-> mapping[train[i]]]

\* df['item_idx'] = df['item_idx'].map(item_mapping), on the test rows.
MapTest(test, mapping) ==
    [i \in 1..Len(test) |-> [test[i] EXCEPT !.item_idx = mapping[test[i].item_idx]]]

\* num_items = df_train['item_idx'].nunique()
NumItems(train) == Cardinality(Range(train))

\* df_test.groupby('user_idx')['item_idx'].apply(set).to_dict()
UserInteractions(test) ==
    [u \in {test[i].user_idx : i \in 1..Len(test)} |->
        {test[i].item_idx : i \in {j \in 1..Len(test) : test[j].user_idx = u}}]

\* df_test.set_index(['user_idx', 'item_idx'])['overall'].to_dict(): for a
\* repeated (user, item) the last row wins.
UserRatings(test) ==
    [key \in {<<test[i].user_idx, test[i].item_idx>> : i \in 1..Len(test)} |->
        LET last == CHOOSE i \in 1..Len(test) :
                        /\ <<test[i].user_idx, test[i].item_idx>> = key
                        /\ \A j \in (i + 1)..Len(test) :
                               <<test[j].user_idx, test[j].item_idx>> # key
        IN  test[last].overall]

\* df['user_idx'].unique()
DfUsers(test) == {test[i].user_idx : i \in 1..Len(test)}

\* A faulty variant of DictGet: the key is never found.
DictGetDefault(d, key, default) == default

\* dict.get(key, default)
DictGet(d, key, default) == IF key \in DOMAIN d THEN d[key] ELSE default

----------------------------------------------------------------------------
(* The ranking metrics.  A value is a fraction <<num, den>>, den > 0.      *)

Frac(n, d) == <<n, d>>

FracEq(a, b) == a[1] * b[2] = b[1] * a[2]

FracLeq(a, b) == a[1] * b[2] <= b[1] * a[2]

\* A faulty variant of ListHits: the hits are counted as a set, each item once.
ListHitsDistinct(top_k, relevant_set) == Cardinality(Range(top_k) \cap relevant_set)

\* len([item for item in top_k if item in relevant_set])
RECURSIVE ListHits(_, _)
ListHits(top_k, relevant_set) ==
    IF top_k = <<>> THEN 0
    ELSE (IF Head(top_k) \in relevant_set THEN 1 ELSE 0)
         + ListHits(Tail(top_k), relevant_set)

\* A faulty variant of precision_at_k: the guard tests k != 0 instead of k > 0.
precision_at_k_nonzero(rec, rel, kk) ==
    LET top_k == PySlicePrefix(rec, kk)
        hits == ListHits(top_k, rel)
    IN  IF kk # 0 THEN Frac(hits, kk) ELSE Frac(0, 1)

\* precision_at_k, lines 229-233.
precision_at_k(rec, rel, kk) ==
    LET top_k == PySlicePrefix(rec, kk)
        hits == ListHits(top_k, rel)
    IN  IF kk > 0 THEN Frac(hits, kk) ELSE Frac(0, 1)

\* A faulty variant of recall_at_k: the textbook denominator, len(relevant) alone.
recall_at_k_textbook(rec, rel, kk) ==
    LET top_k == PySlicePrefix(rec, kk)
        hits == Cardinality(Range(top_k) \cap rel)
    IN  IF Cardinality(rel) > 0 /\ kk > 0 THEN Frac(hits, Cardinality(rel))
        ELSE Frac(0, 1)

\* recall_at_k, lines 235-243.
recall_at_k(rec, rel, kk) ==
    LET top_k == PySlicePrefix(rec, kk)
        hits == Cardinality(Range(top_k) \cap rel)
        total_relevant_at_k == Min(Cardinality(rel), kk)
    IN  IF total_relevant_at_k > 0 THEN Frac(hits, total_relevant_at_k)
        ELSE Frac(0, 1)

----------------------------------------------------------------------------
(* AmazonEnv.                                                              *)

\* reset, line 108: [current_user] + [0] * N + [0] * N as float32.
ResetState(user, n) ==
    <<Float32OfUser(user)>> \o Repeat(Float32OfInt(0), n) \o Repeat(Float32OfInt(0), n)

\* A faulty variant of ResetHistory: the list of the last episode is kept.
ResetHistoryKept(h) == h

\* reset, line 107: self.history = []
ResetHistory(h) == <<>>

\* A faulty variant of StepReward: an unrated pair earns 0 instead of the penalty.
StepRewardNoPenalty(ratings, user, action) ==
    LET key == <<user, action>>
    IN  IF key \in DOMAIN ratings THEN Tenths(ratings[key]) ELSE 0

\* step, lines 112-117: the rating of (current_user, action), else -0.1.
StepReward(ratings, user, action) ==
    LET key == <<user, action>>
    IN  IF key \in DOMAIN ratings THEN Tenths(ratings[key]) ELSE PenaltyTenths

\* A faulty variant of StepHistory: the entry is put in front of the list.
StepHistoryPrepend(h, action, reward) == <<(<<action, reward>>)>> \o h

\* A faulty variant of StepHistory: the entry is stored as (reward, action).
StepHistorySwapped(h, action, reward) == Append(h, <<reward, action>>)

\* step, line 119: self.history.append((action, reward))
StepHistory(h, action, reward) == Append(h, <<action, reward>>)

\* step, lines 120-125: the item ids shown in the observation.
StateItems(h, n) ==
    IF Len(h) < n
    THEN Repeat(0, n - Len(h)) \o [i \in 1..Len(h) |-> h[i][1]]
    ELSE LET w == PySliceSuffix(h, n) IN [i \in 1..Len(w) |-> w[i][1]]

\* step, lines 120-125: the rewards shown in the observation (tenths).
StateRatings(h, n) ==
    IF Len(h) < n
    THEN Repeat(0, n - Len(h)) \o [i \in 1..Len(h) |-> h[i][2]]
    ELSE LET w == PySliceSuffix(h, n) IN [i \in 1..Len(w) |-> w[i][2]]

\* A faulty variant of StepState: the user slot is left out.
StepStateNoUser(user, h, n) ==
    LET items == StateItems(h, n)
        ratings == StateRatings(h, n)
    IN  [i \in 1..Len(items) |-> Float32OfInt(items[i])]
        \o [i \in 1..Len(ratings) |-> Float32OfTenths(ratings[i])]

\* step, line 126: [current_user] + state_items + state_ratings as float32.
StepState(user, h, n) ==
    LET items == StateItems(h, n)
        ratings == StateRatings(h, n)
    IN  <<Float32OfUser(user)>>
        \o [i \in 1..Len(items) |-> Float32OfInt(items[i])]
        \o [i \in 1..Len(ratings) |-> Float32OfTenths(ratings[i])]

\* A faulty variant of StepDone: the episode ends one step late.
StepDoneLate(h, m) == Len(h) > m

\* step, line 127: done = len(self.history) >= self.M
StepDone(h, m) == Len(h) >= m

----------------------------------------------------------------------------
(* DQN and DQNAgent.                                                       *)

\* DQN.forward returns q-values only if the embedding lookups are in range
\* (nn.Embedding raises IndexError otherwise) and the concatenated input has
\* the width fc1 was built for, i.e. the state has 1 + 2 * history_length
\* entries (a RuntimeError otherwise).
ForwardDefined(st, nUsers, nItems, n) ==
    /\ Len(st) = 1 + 2 * n
    /\ st[1] # F32NaN
    /\ IntOfFloat32(st[1]) \in 0..(nUsers - 1)
    /\ \A i \in 2..(1 + n) : IntOfFloat32(st[i]) \in 0..(nItems - 1)

\* The q-value vectors of the model: one score per item id 0..nItems-1 (the
\* score of item a is q[a + 1]).
QValues(nItems) == [1..nItems -> 0..MaxScore]

\* A faulty variant of ArgMax: the index of the last maximal value.
ArgMaxLast(q) ==
    (CHOOSE i \in 1..Len(q) :
        /\ \A j \in 1..Len(q) : q[j] <= q[i]
        /\ \A j \in 1..Len(q) : (q[j] = q[i]) => j <= i) - 1

\* q_values.argmax().item(): the index of the first maximal value.
ArgMax(q) ==
    (CHOOSE i \in 1..Len(q) :
        /\ \A j \in 1..Len(q) : q[j] <= q[i]
        /\ \A j \in 1..Len(q) : (q[j] = q[i]) => i <= j) - 1

\* random.random() < 0.75, the draw in hundredths.
Explores(draw) == draw < ExploreNum

\* The actions select_action can return for user set `user_items`, q-values q
\* and draw `draw`, lines 170-176.
SelectedActions(user_items, q, draw) ==
    IF user_items # {} /\ Explores(draw) THEN user_items ELSE {ArgMax(q)}

\* The draws of random.random() the model tries, in hundredths.
Draws == {ExploreNum - 1, ExploreNum}

NoSel == [outcome |-> "none", state |-> <<>>, action |-> None, q_values |-> <<>>,
          draw |-> 0, user_items |-> {}]

\* The outcomes of select_action(st), lines 163-176: int(nan) raises
\* ValueError, the forward pass raises as described at ForwardDefined, and
\* otherwise an action is returned.
SelectActionResults(st, interactions, nUsers, nItems, n) ==
    IF st[1] = F32NaN
    THEN {[NoSel EXCEPT !.outcome = "ValueError", !.state = st]}
    ELSE LET user_idx == IntOfFloat32(st[1])
             user_items == DictGet(interactions, user_idx, {})
         IN  IF ~ForwardDefined(st, nUsers, nItems, n)
             THEN {[NoSel EXCEPT !.outcome = "raise", !.state = st,
                                 !.user_items = user_items]}
             ELSE UNION {{[outcome |-> "return", state |-> st, action |-> a,
                           q_values |-> q, draw |-> d, user_items |-> user_items] :
                             a \in SelectedActions(user_items, q, d)} :
                                q \in QValues(nItems), d \in Draws}

\* The actions select_action(st) can return.
SelectActionReturns(st, interactions, nUsers, nItems, n) ==
    {r.action : r \in {x \in SelectActionResults(st, interactions, nUsers, nItems, n) :
                          x.outcome = "return"}}

\* Whether select_action(st) raises.
SelectActionRaises(st, interactions, nUsers, nItems, n) ==
    \E r \in SelectActionResults(st, interactions, nUsers, nItems, n) :
        r.outcome # "return"

----------------------------------------------------------------------------
(* The notebook run: the data cell and the construction of env_test.       *)

NoRet == [op |-> "none", outcome |-> "none", action |-> None, state |-> <<>>,
          reward |-> 0, done |-> FALSE]

k_values == {1, MaxM}

EvalIdle ==
    /\ num_test_episodes = 0
    /\ state = <<>>
    /\ done = FALSE
    /\ recommended_items = <<>>
    /\ total_reward = 0
    /\ episode = 0
    /\ precision_scores = <<>>
    /\ recall_scores = <<>>
    /\ total_rewards = <<>>

MetricIdle ==
    /\ recommended = <<>>
    /\ relevant = {}
    /\ k = 0
    /\ precision = Frac(0, 1)
    /\ recall = Frac(0, 1)

\* The train and test splits of df_full the model tries.
TrainSplits == {t \in SeqsUpTo(OrigItems, MaxTrainRows) : Len(t) >= 1}

TestSplits == {t \in SeqsUpTo(TestRow, MaxTestRows) : Len(t) >= 1}

\* The notebook before its first code cell ran: the two splits of df_full.
InitData ==
    /\ pc = "load"
    /\ df_train \in TrainSplits
    /\ df_test \in TestSplits
    /\ item_mapping = <<>>
    /\ num_items = 0
    /\ df = {}
    /\ user_interactions = <<>>
    /\ user_ratings = <<>>
    /\ num_users = 0
    /\ N = 0
    /\ M = 0
    /\ current_user = None
    /\ history = <<>>
    /\ ret = NoRet
    /\ sel = NoSel
    /\ EvalIdle
    /\ MetricIdle

\* Lines 70-74: align the item indices of the two splits.
PrepareData ==
    /\ pc = "load"
    /\ LET mapping == ItemMapping(AllItems(df_train, df_test))
       IN  /\ item_mapping' = mapping
           /\ df_train' = MapTrain(df_train, mapping)
           /\ df_test' = MapTest(df_test, mapping)
           /\ num_items' = NumItems(MapTrain(df_train, mapping))
    /\ pc' = "prepared"
    /\ UNCHANGED <<envVars, ret, sel, evalVars, metricVars>>

\* Lines 77-78: the two tables of the test split.
BuildTables ==
    /\ pc = "prepared"
    /\ user_interactions' = UserInteractions(df_test)
    /\ user_ratings' = UserRatings(df_test)
    /\ pc' = "tables"
    /\ UNCHANGED <<dataVars, df, num_users, N, M, current_user, history, ret, sel,
                   evalVars, metricVars>>

NextData == PrepareData \/ BuildTables

SpecData == InitData /\ [][NextData]_vars

\* The notebook after the data cell (lines 65-81) and the construction of
\* env_test (line 203, AmazonEnv.__init__, lines 89-103), for every pair of
\* splits and every N and M of the model.  The later cells read num_items, the
\* two test tables and the user_idx column of env.df; the splits themselves
\* and item_mapping are read no more and are not kept.
Init ==
    /\ pc = "ready"
    /\ \E train \in TrainSplits, test \in TestSplits :
        LET mapping == ItemMapping(AllItems(train, test))
            test_mapped == MapTest(test, mapping)
        IN  /\ num_items = NumItems(MapTrain(train, mapping))
            /\ df = DfUsers(test_mapped)
            /\ user_interactions = UserInteractions(test_mapped)
            /\ user_ratings = UserRatings(test_mapped)
            /\ num_users = Cardinality(DfUsers(test_mapped))
    /\ N \in 0..MaxN
    /\ M \in 1..MaxM
    /\ current_user = None
    /\ history = <<>>
    /\ df_train = <<>>
    /\ df_test = <<>>
    /\ item_mapping = <<>>
    /\ ret = NoRet
    /\ sel = NoSel
    /\ EvalIdle
    /\ MetricIdle

----------------------------------------------------------------------------
(* Direct calls of the environment.                                        *)

\* The largest item id of the test tables.
MaxStoreItem ==
    LET items == {key[2] : key \in DOMAIN user_ratings}
    IN  CHOOSE i \in items : \A j \in items : j <= i

\* The action ids the model passes to step: the ids below num_items, the ids
\* of the test tables, and one id on either side of them.
ActionInputs == (0 - 1)..Max(num_items, MaxStoreItem + 1)

\* AmazonEnv.reset, lines 105-109.
Reset ==
    /\ pc = "ready"
    /\ \E u \in df :
        /\ current_user' = u
        /\ history' = ResetHistory(history)
        /\ ret' = [op |-> "reset", outcome |-> "return", action |-> None,
                   state |-> ResetState(u, N), reward |-> 0, done |-> FALSE]
    /\ sel' = NoSel
    /\ UNCHANGED <<pc, dataVars, df, user_interactions, user_ratings, num_users, N, M,
                   evalVars, metricVars>>

\* AmazonEnv.step, lines 111-128; callers do not step after done.
Step ==
    /\ pc = "ready"
    /\ Len(history) < M
    /\ \E action \in ActionInputs :
        LET reward == StepReward(user_ratings, current_user, action)
            h == StepHistory(history, action, reward)
        IN  /\ history' = h
            /\ ret' = [op |-> "step", outcome |-> "return", action |-> action,
                       state |-> StepState(current_user, h, N), reward |-> reward,
                       done |-> StepDone(h, M)]
    /\ sel' = NoSel
    /\ UNCHANGED <<pc, dataVars, df, user_interactions, user_ratings, num_users, N, M,
                   current_user, evalVars, metricVars>>

Next == Reset \/ Step

Spec == Init /\ [][Next]_vars

----------------------------------------------------------------------------
(* Direct calls of the agent, on any observation of the declared shape.    *)

\* The state vectors passed to select_action: a user id (one of them beyond
\* the user ids of the data), N item slots holding one item id (one of them
\* beyond the ids below num_items) and N reward slots.  select_action reads
\* the user slot, DQN.forward the user and the item slots.
AgentStates ==
    {<<Float32OfInt(u)>> \o Repeat(Float32OfInt(it), N) \o Repeat(Float32OfTenths(rw), N) :
        u \in 0..MaxUsers, it \in 0..num_items, rw \in {PenaltyTenths, 0}}

\* DQNAgent.select_action, lines 163-176.  A call writes nothing a later call
\* reads, so one call per run covers them all.
SelectAction ==
    /\ pc = "ready"
    /\ sel = NoSel
    /\ \E st \in AgentStates :
        sel' \in SelectActionResults(st, user_interactions, num_users, num_items, N)
    /\ UNCHANGED <<pc, dataVars, envVars, ret, evalVars, metricVars>>

NextAgent == SelectAction

SpecAgent == Init /\ [][NextAgent]_vars

----------------------------------------------------------------------------
(* evaluate_agent(agent, env_test, num_test_episodes, k_values).           *)

\* Lines 264-267: the call and the three accumulators.
EvalCall ==
    /\ pc = "ready"
    /\ \E n \in 1..MaxEpisodes : num_test_episodes' = n
    /\ precision_scores' = [kk \in k_values |-> <<>>]
    /\ recall_scores' = [kk \in k_values |-> <<>>]
    /\ total_rewards' = <<>>
    /\ episode' = 0
    /\ pc' = "for"
    /\ UNCHANGED <<dataVars, envVars, ret, sel, state, done, recommended_items,
                   total_reward, metricVars>>

\* Lines 269-273: the head of an episode, with env.reset() (lines 105-109).
EvalReset ==
    /\ pc = "for"
    /\ episode < num_test_episodes
    /\ \E u \in df :
        /\ current_user' = u
        /\ history' = ResetHistory(history)
        /\ ret' = [op |-> "reset", outcome |-> "return", action |-> None,
                   state |-> ResetState(u, N), reward |-> 0, done |-> FALSE]
        /\ state' = ResetState(u, N)
    /\ done' = FALSE
    /\ recommended_items' = <<>>
    /\ total_reward' = 0
    /\ pc' = "while"
    /\ UNCHANGED <<dataVars, df, user_interactions, user_ratings, num_users, N, M, sel,
                   num_test_episodes, episode, precision_scores, recall_scores,
                   total_rewards, metricVars>>

\* Lines 275-280: one pass of the while loop, select_action returning (its
\* q-values and its draw are locals of the call and are gone on return).
EvalLoopBody ==
    /\ pc = "while"
    /\ ~done
    /\ \E action \in SelectActionReturns(state, user_interactions, num_users, num_items, N) :
           LET reward == StepReward(user_ratings, current_user, action)
               h == StepHistory(history, action, reward)
               next_state == StepState(current_user, h, N)
           IN  /\ history' = h
               /\ ret' = [op |-> "step", outcome |-> "return", action |-> action,
                          state |-> next_state, reward |-> reward,
                          done |-> StepDone(h, M)]
               /\ done' = StepDone(h, M)
               /\ recommended_items' = Append(recommended_items, action)
               /\ total_reward' = total_reward + reward
               /\ state' = next_state
    /\ UNCHANGED <<pc, dataVars, df, user_interactions, user_ratings, num_users, N, M,
                   current_user, sel, num_test_episodes, episode, precision_scores,
                   recall_scores, total_rewards, metricVars>>

\* Line 276 raising: the exception leaves evaluate_agent.
EvalLoopRaise ==
    /\ pc = "while"
    /\ ~done
    /\ SelectActionRaises(state, user_interactions, num_users, num_items, N)
    /\ pc' = "raised"
    /\ UNCHANGED <<dataVars, envVars, ret, sel, evalVars, metricVars>>

\* Lines 282-292: the metrics of the episode.
EvalEpisodeEnd ==
    /\ pc = "while"
    /\ done
    /\ LET user_idx == IntOfFloat32(state[1])
           relevant_items == DictGet(user_interactions, user_idx, {})
       IN  /\ precision_scores' =
                [kk \in k_values |->
                    Append(precision_scores[kk],
                           precision_at_k(recommended_items, relevant_items, kk))]
           /\ recall_scores' =
                [kk \in k_values |->
                    Append(recall_scores[kk],
                           recall_at_k(recommended_items, relevant_items, kk))]
    /\ total_rewards' = Append(total_rewards, total_reward)
    /\ episode' = episode + 1
    /\ pc' = "for"
    /\ UNCHANGED <<dataVars, envVars, ret, sel, num_test_episodes, state, done,
                   recommended_items, total_reward, metricVars>>

\* Lines 295-304: the loop is over; the averages are returned.
EvalReturn ==
    /\ pc = "for"
    /\ episode = num_test_episodes
    /\ pc' = "returned"
    /\ UNCHANGED <<dataVars, envVars, ret, sel, evalVars, metricVars>>

NextEval ==
    \/ EvalCall
    \/ EvalReset
    \/ EvalLoopBody
    \/ EvalLoopRaise
    \/ EvalEpisodeEnd
    \/ EvalReturn

SpecEval == Init /\ [][NextEval]_vars

----------------------------------------------------------------------------
(* Direct calls of the two metrics.                                        *)

MetricItems == 1..MaxMetricItem

\* The scenario of the specification's testable properties.
ScenarioRecommended == <<156, 358, 58, 478, 1034>>

ScenarioRelevant == {358, 1034, 999}

MetricArgs ==
    {<<ScenarioRecommended, ScenarioRelevant, 5>>}
    \cup (SeqsUpTo(MetricItems, MaxRecLen) \X (SUBSET MetricItems) \X ((0 - MaxK)..MaxK))

InitMetric ==
    /\ pc = "metric_args"
    /\ \E args \in MetricArgs :
        /\ recommended = args[1]
        /\ relevant = args[2]
        /\ k = args[3]
    /\ precision = Frac(0, 1)
    /\ recall = Frac(0, 1)
    /\ df_train = <<>>
    /\ df_test = <<>>
    /\ item_mapping = <<>>
    /\ num_items = 0
    /\ df = {}
    /\ user_interactions = <<>>
    /\ user_ratings = <<>>
    /\ num_users = 0
    /\ N = 0
    /\ M = 0
    /\ current_user = None
    /\ history = <<>>
    /\ ret = NoRet
    /\ sel = NoSel
    /\ EvalIdle

\* precision_at_k and recall_at_k, lines 229-243, on the same arguments.
CallMetrics ==
    /\ pc = "metric_args"
    /\ precision' = precision_at_k(recommended, relevant, k)
    /\ recall' = recall_at_k(recommended, relevant, k)
    /\ pc' = "metric_done"
    /\ UNCHANGED <<dataVars, envVars, ret, sel, evalVars, recommended, relevant, k>>

NextMetric == CallMetrics

SpecMetrics == InitMetric /\ [][NextMetric]_vars

----------------------------------------------------------------------------
(* Properties of the metrics, checked under SpecMetrics.                   *)

MetricDone == pc = "metric_done"

\* The number of positions of recommended[:k] that hold a relevant item.
RelevantPositions ==
    Cardinality({i \in 1..Len(PySlicePrefix(recommended, k)) : recommended[i] \in relevant})

\* The number of distinct relevant items in recommended[:k].
DistinctHits == Cardinality(Range(PySlicePrefix(recommended, k)) \cap relevant)

\* C1 as stated: for k > 0, precision_at_k is the number of distinct items of
\* set(recommended[:k]) & relevant, divided by k.
C1_PrecisionDistinct ==
    (MetricDone /\ k > 0) => FracEq(precision, Frac(DistinctHits, k))

\* C1 amended: for k > 0, precision_at_k is the number of positions of
\* recommended[:k] whose item is relevant (a repeated relevant item counts once
\* per occurrence), divided by k.
C1_PrecisionPositions ==
    (MetricDone /\ k > 0) => FracEq(precision, Frac(RelevantPositions, k))

\* C1 witness: precision computed for a list whose first k entries repeat a
\* relevant item.
C1_Witness ==
    /\ MetricDone
    /\ k > 0
    /\ \E i, j \in 1..Len(PySlicePrefix(recommended, k)) :
        i < j /\ recommended[i] = recommended[j] /\ recommended[i] \in relevant

\* C2 as stated: for every k, recall_at_k is |set(recommended[:k]) & relevant|
\* divided by min(|relevant|, k), and 0 when that minimum is 0.
C2_RecallEveryK ==
    MetricDone =>
        LET d == Min(Cardinality(relevant), k)
        IN  IF d = 0 THEN FracEq(recall, Frac(0, 1))
            ELSE FracEq(recall, Frac(DistinctHits, d))

\* C2 amended: recall_at_k is |set(recommended[:k]) & relevant| divided by
\* min(|relevant|, k) when that minimum is positive, and 0 when it is zero or
\* negative; the denominator is the minimum, not |relevant|.
C2_RecallMinDenominator ==
    MetricDone =>
        LET d == Min(Cardinality(relevant), k)
        IN  IF d <= 0 THEN FracEq(recall, Frac(0, 1))
            ELSE FracEq(recall, Frac(DistinctHits, d))

\* C2 witness: recall computed with k below |relevant| and a hit, so that the
\* two denominators differ.
C2_Witness ==
    /\ MetricDone
    /\ 0 < k
    /\ k < Cardinality(relevant)
    /\ DistinctHits > 0

Scenario ==
    /\ MetricDone
    /\ recommended = ScenarioRecommended
    /\ relevant = ScenarioRelevant
    /\ k = 5

\* C3 as stated: on the scenario precision_at_k is 3/5 and recall_at_k is 3/3.
C3_ScenarioAsStated ==
    Scenario => (FracEq(precision, Frac(3, 5)) /\ FracEq(recall, Frac(3, 3)))

\* C3 amended: on the scenario precision_at_k is 2/5 (0.4) and recall_at_k is
\* 2/3: of the relevant items only 358 and 1034 are recommended, 999 is not.
C3_ScenarioValues ==
    Scenario => (FracEq(precision, Frac(2, 5)) /\ FracEq(recall, Frac(2, 3)))

\* C3 witness: the metrics were computed on the scenario.
C3_Witness == Scenario

----------------------------------------------------------------------------
(* Properties of AmazonEnv.step, checked under Spec.                       *)

\* The rating stored for (user, item), in tenths, when there is one.
Rated(user, item) == <<user, item>> \in DOMAIN user_ratings

\* C4: a step taken after a reset returns the stored rating of
\* (current_user, action) when the pair is rated and the penalty -0.1
\* otherwise, appends exactly (action, reward) to history, and the penalty is
\* below every stored rating.
C4_StepReward ==
    [][(pc = "ready" /\ current_user # None /\ history' # history /\ history' # <<>>) =>
         LET action == ret'.action
             reward == ret'.reward
         IN  /\ ret'.op = "step"
             /\ Rated(current_user, action) =>
                    reward = 10 * user_ratings[<<current_user, action>>]
             /\ ~Rated(current_user, action) => reward = PenaltyTenths
             /\ history' = Append(history, <<action, reward>>)
             /\ \A key \in DOMAIN user_ratings :
                    PenaltyTenths < 10 * user_ratings[key]]_vars

\* C4 witness: after a reset, a step on a rated pair following a step on an
\* unrated one.
C4_Witness ==
    /\ ret.op = "step"
    /\ current_user # None
    /\ Rated(current_user, ret.action)
    /\ ret.reward = 10 * user_ratings[<<current_user, ret.action>>]
    /\ \E i \in 1..(Len(history) - 1) : history[i][2] = PenaltyTenths

\* The item slots and the reward slots of an observation of the declared shape.
ItemSlots(st) == SubSeq(st, 2, 1 + N)

RewardSlots(st) == SubSeq(st, 2 + N, 1 + 2 * N)

\* The number of zeros a sequence starts with.
RECURSIVE LeadingZeros(_)
LeadingZeros(s) ==
    IF s = <<>> \/ Head(s) # 0 THEN 0 ELSE 1 + LeadingZeros(Tail(s))

\* C6 as stated: after j < N steps on valid item ids following a reset, the
\* observation has exactly N - j leading zero item slots and exactly N - j
\* leading zero reward slots.
C6_ExactPadding ==
    (/\ ret.op \in {"reset", "step"}
     /\ current_user # None
     /\ Len(history) < N
     /\ \A i \in 1..Len(history) : history[i][1] \in 0..(num_items - 1))
    => /\ Len(ret.state) = 1 + 2 * N
       /\ LeadingZeros(ItemSlots(ret.state)) = N - Len(history)
       /\ LeadingZeros(RewardSlots(ret.state)) = N - Len(history)

\* The last min(n, len) entries of a history.
LastEntries(h, n) == SubSeq(h, Len(h) - Min(n, Len(h)) + 1, Len(h))

\* C7 as stated: every observation returned by reset or step has length
\* 1 + 2N and is [current_user] ++ items ++ rewards, the items and rewards of
\* the last min(N, len(history)) history entries, oldest first, each
\* left-padded with zeros to N entries.
C7_ObservationShape ==
    (ret.op \in {"reset", "step"} /\ current_user # None) =>
        LET w == LastEntries(history, N)
            pad == N - Len(w)
        IN  /\ Len(ret.state) = 1 + 2 * N
            /\ ret.state[1] = Float32OfInt(current_user)
            /\ \A i \in 1..pad : ret.state[1 + i] = 0 /\ ret.state[1 + N + i] = 0
            /\ \A i \in 1..Len(w) :
                /\ ret.state[1 + pad + i] = Float32OfInt(w[i][1])
                /\ ret.state[1 + N + pad + i] = Float32OfTenths(w[i][2])

\* C7 restricted to N >= 1 (not the claim: the part of it the code keeps).
ObservationShapePositiveN == (N >= 1) => C7_ObservationShape

\* C9 as stated: the item remapping is injective and every dense id it
\* assigns lies in [0, num_items).
C9_MappingInRange ==
    (pc # "load") =>
        /\ \A a, b \in DOMAIN item_mapping :
               (a # b) => (item_mapping[a] # item_mapping[b])
        /\ \A a \in DOMAIN item_mapping : item_mapping[a] \in 0..(num_items - 1)

\* C10 as stated: a step taken before any reset ends in an error, returns no
\* (observation, reward, done) and leaves history as it was.
C10_StepBeforeReset ==
    (current_user = None) => (history = <<>> /\ ret.op # "step")

----------------------------------------------------------------------------
(* Properties of evaluate_agent, checked under SpecEval.                   *)

\* C5: in an episode driven by evaluate_agent, step returns done = FALSE on
\* each of the first M - 1 steps and done = TRUE on the M-th (done iff
\* len(history) = M), the loop never takes more than M steps, and it is left
\* with a recommendation list of exactly M items.
C5_EpisodeLength ==
    /\ (pc = "while") =>
        /\ Len(recommended_items) = Len(history)
        /\ Len(history) <= M
        /\ done = (Len(history) = M)
        /\ (ret.op = "step") => (ret.done = (Len(history) = M))
    /\ (pc \in {"for", "returned"} /\ episode > 0) => Len(recommended_items) = M

\* C5 witness: an episode of M >= 2 steps has ended and its metrics are in.
C5_Witness ==
    /\ pc = "for"
    /\ episode > 0
    /\ M >= 2
    /\ Len(recommended_items) = M
    /\ ret.done

----------------------------------------------------------------------------
(* Properties of select_action, checked under SpecAgent.                   *)

\* The item with the highest score, the lowest id among equals.
IsFirstArgMax(a, q) ==
    /\ a + 1 \in 1..Len(q)
    /\ \A j \in 1..Len(q) : q[j] <= q[a + 1]
    /\ \A j \in 1..a : q[j] < q[a + 1]

\* C8: select_action returns argmax(scores), ties to the lowest item id,
\* whenever the observation's user has no relevant items in the store (or is
\* absent from it), whatever the draw; otherwise it returns a relevant item of
\* that user or argmax(scores); an action other than the argmax is returned
\* only when the set is not empty.
C8_SelectAction ==
    (sel.outcome = "return") =>
        LET user_items == DictGet(user_interactions, IntOfFloat32(sel.state[1]), {})
        IN  /\ (user_items = {}) => IsFirstArgMax(sel.action, sel.q_values)
            /\ (user_items # {}) =>
                   (sel.action \in user_items \/ IsFirstArgMax(sel.action, sel.q_values))
            /\ ~IsFirstArgMax(sel.action, sel.q_values) =>
                   (user_items # {} /\ Explores(sel.draw))

\* C8 witness: a user absent from the store, a draw below 0.75 and two items
\* tied for the best score: the lower id is returned.
C8_Witness ==
    /\ sel.outcome = "return"
    /\ IntOfFloat32(sel.state[1]) \notin DOMAIN user_interactions
    /\ Explores(sel.draw)
    /\ \E i, j \in 1..Len(sel.q_values) :
        /\ i < j
        /\ sel.q_values[i] = sel.q_values[j]
        /\ \A l \in 1..Len(sel.q_values) : sel.q_values[l] <= sel.q_values[i]
    /\ IsFirstArgMax(sel.action, sel.q_values)

----------------------------------------------------------------------------
(* Properties of step on action ids outside the action space, under Spec.  *)

\* The declared action space, spaces.Discrete(num_items).
ActionSpace == 0..(num_items - 1)

\* C11 as stated: a step with an action id outside [0, num_items) ends in an
\* error: it returns no (observation, reward, done), produces no reward and
\* leaves history unchanged, so that after a reset no step result and no
\* history entry carries an action outside the action space.
C11_InvalidActionError ==
    (current_user # None) =>
        /\ (ret.op = "step" /\ ret.outcome = "return") => ret.action \in ActionSpace
        /\ \A i \in 1..Len(history) : history[i][1] \in ActionSpace

----------------------------------------------------------------------------
(* Range and degenerate k of the metrics, checked under SpecMetrics.       *)

Zero == Frac(0, 1)

One == Frac(1, 1)

\* C12: for every k > 0, every recommended list (repeats allowed, shorter
\* than k or not) and every relevant set, precision_at_k and recall_at_k both
\* return a value in [0, 1].
C12_MetricsInUnitInterval ==
    (MetricDone /\ k > 0) =>
        /\ precision[2] > 0
        /\ recall[2] > 0
        /\ FracLeq(Zero, precision) /\ FracLeq(precision, One)
        /\ FracLeq(Zero, recall) /\ FracLeq(recall, One)

\* C12 witness: a list shorter than k that repeats a relevant item and reaches
\* recall 1.
C12_Witness ==
    /\ MetricDone
    /\ k > Len(recommended)
    /\ \E i, j \in 1..Len(recommended) :
        i < j /\ recommended[i] = recommended[j] /\ recommended[i] \in relevant
    /\ FracEq(recall, One)
    /\ ~FracEq(precision, Zero)

\* C13: for every k <= 0, every recommended list and every relevant set,
\* precision_at_k and recall_at_k both return 0, and no quotient with a zero
\* denominator is formed.
C13_DegenerateK ==
    (MetricDone /\ k <= 0) =>
        /\ precision[2] # 0 /\ FracEq(precision, Zero)
        /\ recall[2] # 0 /\ FracEq(recall, Zero)

\* C13 witness: a negative k whose slice recommended[:k] holds a relevant item.
C13_Witness ==
    /\ MetricDone
    /\ k < 0
    /\ Range(PySlicePrefix(recommended, k)) \cap relevant # {}

----------------------------------------------------------------------------
(* Properties of reset, checked under Spec.                                *)

\* C14: whatever the state it is called in, reset sets current_user to a user
\* of the split, empties history and returns [current_user] followed by N zero
\* item slots and N zero reward slots; the observation of the first step after
\* it shows that step's entry and zeros, nothing of an earlier episode.
C14_ResetClears ==
    [][/\ (ret'.op = "reset") =>
            /\ current_user' \in df
            /\ history' = <<>>
            /\ Len(ret'.state) = 1 + 2 * N
            /\ ret'.state[1] = Float32OfInt(current_user')
            /\ \A i \in 2..(1 + 2 * N) : ret'.state[i] = 0
       /\ (ret.op = "reset" /\ ret'.op = "step") =>
            /\ history' = <<(<<ret'.action, ret'.reward>>)>>
            /\ ret'.state[1] = Float32OfInt(current_user)
            /\ \A i \in 1..(N - 1) : ret'.state[1 + i] = 0 /\ ret'.state[1 + N + i] = 0
            /\ (N >= 1) =>
                 /\ ret'.state[1 + N] = Float32OfInt(ret'.action)
                 /\ ret'.state[1 + 2 * N] = Float32OfTenths(ret'.reward)]_vars

\* C14 witness: a reset has returned for N >= 1: history is empty and the
\* observation holds the sampled user and zeros.
C14_Witness ==
    /\ ret.op = "reset"
    /\ N >= 1
    /\ M >= 2
    /\ history = <<>>
    /\ ret.state = <<Float32OfInt(current_user)>> \o Repeat(0, 2 * N)

----------------------------------------------------------------------------
(* Frame of step and select_action, checked under SpecEval.                *)

\* The last element of a non-empty sequence.
Last(s) == s[Len(s)]

\* C15: a pass of the evaluator's loop (select_action, then step) changes
\* history only: current_user, N, M, the rating table, the relevant-item
\* table and the sizes the policy was built with stay as they were.  So the
\* user slot of every observation of an episode is the user its reset sampled,
\* and the metrics of the episode are computed against that user's
\* relevant-item set.
C15_StepFrame ==
    [][/\ (pc = "while" /\ pc' = "while") =>
            /\ UNCHANGED <<current_user, N, M, user_ratings, user_interactions, df,
                           num_users, num_items>>
            /\ history' # history
       /\ (pc' = "while") =>
            /\ state' = ret'.state
            /\ state'[1] = Float32OfInt(current_user')
       /\ (pc = "while" /\ pc' = "for") =>
            LET relevant_items == DictGet(user_interactions, current_user, {})
            IN  \A kk \in k_values :
                    /\ Last(precision_scores'[kk]) =
                           precision_at_k(recommended_items, relevant_items, kk)
                    /\ Last(recall_scores'[kk]) =
                           recall_at_k(recommended_items, relevant_items, kk)]_vars

\* C15 witness: an episode of two steps has ended for a user with relevant
\* items; the last observation carries that user next to an item of another
\* id.
C15_Witness ==
    /\ pc = "for"
    /\ episode > 0
    /\ Len(history) >= 2
    /\ state[1] = Float32OfInt(current_user)
    /\ N >= 1
    /\ state[2] # state[1]
    /\ DictGet(user_interactions, current_user, {}) # {}

----------------------------------------------------------------------------
(* History and accumulators of evaluate_agent, checked under SpecEval.     *)

HistoryItems(h) == [i \in 1..Len(h) |-> h[i][1]]

RECURSIVE HistoryRewardSum(_)
HistoryRewardSum(h) ==
    IF h = <<>> THEN 0 ELSE h[1][2] + HistoryRewardSum(Tail(h))

----------------------------------------------------------------------------
(* Rewards against relevant items, checked under SpecEval.                 *)

\* The relevant items of the current user in the table built at line 77.
RelevantOfCurrentUser ==
    IF current_user \in DOMAIN user_interactions THEN user_interactions[current_user]
    ELSE {}

\* The steps of the episode whose reward was a rating, not the penalty.
RatedSteps == {i \in 1..Len(history) : history[i][2] # PenaltyTenths}

\* C18: with both tables built from the same test rows, a step's reward is
\* not the penalty exactly when its action is a relevant item of the current
\* user; so at the end of an episode the hits precision_at_k counts for k = M
\* are the steps rewarded with a rating.
C18_RewardIffRelevant ==
    (pc = "while" \/ (pc \in {"for", "returned"} /\ episode > 0)) =>
        /\ \A i \in 1..Len(history) :
               (history[i][2] # PenaltyTenths) <=> (history[i][1] \in RelevantOfCurrentUser)
        /\ done =>
               ListHits(PySlicePrefix(recommended_items, M), RelevantOfCurrentUser)
                   = Cardinality(RatedSteps)
        /\ (pc \in {"for", "returned"} /\ M \in k_values) =>
               Last(precision_scores[M]) = Frac(Cardinality(RatedSteps), M)

\* C18 witness: an episode has ended with a rated step and a penalised step,
\* and its precision for k = M is in the accumulator.
C18_Witness ==
    /\ pc = "for"
    /\ episode > 0
    /\ M \in k_values
    /\ RatedSteps # {}
    /\ RatedSteps # 1..Len(history)
    /\ Last(precision_scores[M]) = Frac(Cardinality(RatedSteps), M)

----------------------------------------------------------------------------
(* The declared spaces, checked under SpecEval.                            *)

\* The bounds of spaces.Box(low=0, high=high, shape=(1 + 2 * N,)), line 102,
\* for slot i of an observation.
HighOfSlot(i) ==
    IF i = 1 THEN Float32OfInt(num_users - 1)
    ELSE IF i <= 1 + N THEN Float32OfInt(num_items - 1)
    ELSE Float32OfInt(MaxRating)

InObservationSpace(st) ==
    /\ Len(st) = 1 + 2 * N
    /\ \A i \in 1..Len(st) : 0 <= st[i] /\ st[i] <= HighOfSlot(i)

\* C19 as stated: every observation reset or step returns during evaluation
\* lies in the declared observation space (user slot in [0, num_users - 1],
\* item slots in [0, num_items - 1], reward slots in [0, 5]), and every action
\* passed to step lies in the action space [0, num_items).
C19_WithinDeclaredSpaces ==
    (pc \in {"while", "for", "returned", "raised"} /\ ret.op \in {"reset", "step"}) =>
        /\ InObservationSpace(ret.state)
        /\ \A i \in 1..Len(recommended_items) : recommended_items[i] \in ActionSpace

====
